---- MODULE Spec2Model ----
(***************************************************************************)
(* Sandboxed-C: the batch endpoint POST /api/run (backend/index.js and the *)
(* copy of it inside backend/interactiveServer.js) and the interactive     *)
(* WebSocket session bridge (backend/interactiveServer.js).                *)
(*                                                                         *)
(* Node runs every callback to completion, so one action is one callback:  *)
(* the code between two awaits of the request handler, or one event        *)
(* handler of a connection.  What docker, gcc, the compiled program and    *)
(* the filesystem answer is the environment's choice, drawn with \E.       *)
(***************************************************************************)
EXTENDS Integers, Sequences, FiniteSets, TLC

(* ------------------------------ bounds -------------------------------- *)

\* Batch requests in flight together.
MaxRequests == 2

\* What the WebSocket clients do in all, each connection made and each
\* message sent counting as one step, and the chunks their endless programs
\* write in all.
MaxClientSteps == 3
MaxChunks == 1

\* The longest terminal output stream whose cuts into chunks are examined.
MaxStream == 4

(* --------------------------- JavaScript values ------------------------ *)

\* A JavaScript value of the kinds the backend handles: one record shape
\* for all of them, so that any two can be compared.
Undefined == [k |-> "undefined", n |-> 0, s |-> ""]
Null == [k |-> "null", n |-> 0, s |-> ""]
NaN == [k |-> "NaN", n |-> 0, s |-> ""]
Num(n) == [k |-> "number", n |-> n, s |-> ""]
Str(s) == [k |-> "string", n |-> 0, s |-> s]

\* ToBoolean: 0, NaN, '', null and undefined are falsy.
Truthy(v) ==
  CASE v.k = "number" -> v.n # 0
    [] v.k = "string" -> v.s # ""
    [] OTHER -> FALSE

\* a || b
OrElse(a, b) == IF Truthy(a) THEN a ELSE b

\* The error argument of an exec/execFile callback.  isError = FALSE is
\* null (the child exited with 0); code is the exit code, null when the
\* child was killed by a signal, or a system error name when it could not
\* be spawned; killed says that exec's own timeout killed the child.
NoError == [isError |-> FALSE, code |-> Undefined, killed |-> FALSE]
ExecError(code, killed) == [isError |-> TRUE, code |-> code, killed |-> killed]

(* -------------------------------- text -------------------------------- *)

\* Text is a sequence of tokens.  "NL" is a line feed, " " a blank, "BSN"
\* the two characters backslash and n; every other token is a run of text
\* holding none of them.
IsSpace(t) == t \in {"NL", " "}

RECURSIVE TrimStart(_)
TrimStart(s) ==
  IF s # <<>> /\ IsSpace(Head(s)) THEN TrimStart(Tail(s)) ELSE s

RECURSIVE TrimEnd(_)
TrimEnd(s) ==
  IF s # <<>> /\ IsSpace(s[Len(s)]) THEN TrimEnd(SubSeq(s, 1, Len(s) - 1)) ELSE s

\* String.prototype.trim
Trim(s) == TrimEnd(TrimStart(s))

\* String.prototype.split(sep) for a one-token separator: the pieces
\* between the separators, one more than there are separators.
RECURSIVE SplitAcc(_, _, _)
SplitAcc(s, sep, cur) ==
  IF s = <<>> THEN <<cur>>
  ELSE IF Head(s) = sep THEN <<cur>> \o SplitAcc(Tail(s), sep, <<>>)
  ELSE SplitAcc(Tail(s), sep, Append(cur, Head(s)))

Split(s, sep) == SplitAcc(s, sep, <<>>)

\* Array.prototype.join(sep)
RECURSIVE Join(_, _)
Join(parts, sep) ==
  IF parts = <<>> THEN <<>>
  ELSE IF Len(parts) = 1 THEN parts[1]
  ELSE parts[1] \o <<sep>> \o Join(Tail(parts), sep)

\* Array.prototype.slice(from, to) with 0-based from (inclusive) and to
\* (exclusive), both already within 0..length.
Slice(a, from, to) == IF to <= from THEN <<>> ELSE SubSeq(a, from + 1, to)

(* -------------------------- stripAnsiSequences ------------------------ *)

\* Terminal output is text of one-character tokens.  The character classes
\* of the four patterns, over the characters the model writes: "0" and ";"
\* are parameter bytes [0-?], " " is an intermediate byte [ -/], and "m",
\* "x", "P", "[", "]" and the backslash are final bytes [@-~].
IsParameterByte(t) == t \in {"0", ";"}
IsIntermediateByte(t) == t \in {" "}
IsFinalByte(t) == t \in {"m", "x", "P", "[", "]", "\\"}

\* The first position from i on whose token is not in the class, Len + 1
\* when all of them are: where a greedy star over the class stops.
RECURSIVE SkipParameters(_, _)
SkipParameters(s, i) ==
  IF i <= Len(s) /\ IsParameterByte(s[i]) THEN SkipParameters(s, i + 1) ELSE i

RECURSIVE SkipIntermediates(_, _)
SkipIntermediates(s, i) ==
  IF i <= Len(s) /\ IsIntermediateByte(s[i]) THEN SkipIntermediates(s, i + 1) ELSE i

RECURSIVE SkipOscBody(_, _)
SkipOscBody(s, i) ==
  IF i <= Len(s) /\ s[i] \notin {"BEL", "ESC"} THEN SkipOscBody(s, i + 1) ELSE i

\* Each pattern tried at position i: the position after the match, 0 when
\* it does not match there.
\* csi = /\u001B\[[0-?]*[ -\/]*[@-~]/
MatchCsi(s, i) ==
  IF i + 1 <= Len(s) /\ s[i] = "ESC" /\ s[i + 1] = "["
    THEN LET k == SkipIntermediates(s, SkipParameters(s, i + 2))
         IN IF k <= Len(s) /\ IsFinalByte(s[k]) THEN k + 1 ELSE 0
    ELSE 0

\* osc = /\u001B\][^\u0007\u001B]*(?:\u0007|\u001B\\)/
MatchOsc(s, i) ==
  IF i + 1 <= Len(s) /\ s[i] = "ESC" /\ s[i + 1] = "]"
    THEN LET k == SkipOscBody(s, i + 2)
         IN IF k <= Len(s) /\ s[k] = "BEL" THEN k + 1
            ELSE IF k + 1 <= Len(s) /\ s[k] = "ESC" /\ s[k + 1] = "\\" THEN k + 2
            ELSE 0
    ELSE 0

\* other = /\u001B[PX^_].*?\u001B\\/ : the nearest ESC \ with no line
\* break before it.
MatchOther(s, i) ==
  IF i + 1 <= Len(s) /\ s[i] = "ESC" /\ s[i + 1] = "P"
    THEN LET ends == {k \in (i + 2)..(Len(s) - 1) :
                        /\ s[k] = "ESC" /\ s[k + 1] = "\\"
                        /\ \A j \in (i + 2)..(k - 1) : s[j] # "NL"}
         IN IF ends = {} THEN 0
            ELSE (CHOOSE k \in ends : \A j \in ends : k <= j) + 2
    ELSE 0

\* bel = /\u0007/
MatchBel(s, i) == IF i <= Len(s) /\ s[i] = "BEL" THEN i + 1 ELSE 0

\* raw.replace(pattern, '') with the g flag: left to right, every match
\* dropped, the scan going on after it.
RECURSIVE RemoveCsi(_, _)
RemoveCsi(s, i) ==
  IF i > Len(s) THEN <<>>
  ELSE IF MatchCsi(s, i) # 0 THEN RemoveCsi(s, MatchCsi(s, i))
  ELSE <<s[i]>> \o RemoveCsi(s, i + 1)

RECURSIVE RemoveOsc(_, _)
RemoveOsc(s, i) ==
  IF i > Len(s) THEN <<>>
  ELSE IF MatchOsc(s, i) # 0 THEN RemoveOsc(s, MatchOsc(s, i))
  ELSE <<s[i]>> \o RemoveOsc(s, i + 1)

RECURSIVE RemoveOther(_, _)
RemoveOther(s, i) ==
  IF i > Len(s) THEN <<>>
  ELSE IF MatchOther(s, i) # 0 THEN RemoveOther(s, MatchOther(s, i))
  ELSE <<s[i]>> \o RemoveOther(s, i + 1)

RECURSIVE RemoveBel(_, _)
RemoveBel(s, i) ==
  IF i > Len(s) THEN <<>>
  ELSE IF MatchBel(s, i) # 0 THEN RemoveBel(s, MatchBel(s, i))
  ELSE <<s[i]>> \o RemoveBel(s, i + 1)

stripAnsiSequences(raw) ==
  RemoveBel(RemoveOther(RemoveOsc(RemoveCsi(raw, 1), 1), 1), 1)

(* ------------------- submitted programs (the inputs) ------------------ *)

\* The C sources a client submits: the README's test programs (Hello
\* World, Segfault Test, Infinite Loop Test), a source gcc rejects, and a
\* program that returns 124 by itself.
Programs == {"hello", "segfault", "loop", "syntaxError", "exit124"}

\* code.length of each source.
SourceLength(p) ==
  CASE p = "hello" -> 79
    [] p = "segfault" -> 80
    [] p = "loop" -> 107
    [] p = "syntaxError" -> 11
    [] p = "exit124" -> 23
    [] p = "greet" -> 159

\* What gcc answers for main.c: its exit code and its diagnostics;
\* "noSource" stands for a workspace that holds no main.c.
Gcc(p) ==
  CASE p = "syntaxError" ->
         [exit |-> 1, diagnostics |-> <<"main.c:1:11: error: expected ')'", "NL">>]
    [] p = "noSource" ->
         [exit |-> 1, diagnostics |-> <<"gcc: error: main.c: No such file or directory", "NL">>]
    [] OTHER ->
         [exit |-> 0, diagnostics |-> <<>>]

\* What ./main does: whether it ends by itself, its exit code when it does
\* (139 = 128 + SIGSEGV), and what it writes (for the endless loop, what it
\* has written when it is killed); "noBinary" stands for a workspace that
\* holds no ./main.
Program(p) ==
  CASE p = "hello" ->
         [terminates |-> TRUE, exit |-> 0, out |-> <<"Hello, World!", "NL">>, err |-> <<>>]
    [] p = "segfault" ->
         [terminates |-> TRUE, exit |-> 139, out |-> <<>>, err |-> <<>>]
    [] p = "loop" ->
         [terminates |-> FALSE, exit |-> 0, out |-> <<"Infinite loop...", "NL">>, err |-> <<>>]
    [] p = "exit124" ->
         [terminates |-> TRUE, exit |-> 124, out |-> <<>>, err |-> <<>>]
    [] p = "greet" ->
         [terminates |-> TRUE, exit |-> 0, out |-> <<"Enter your name: ">>, err |-> <<>>]
    [] p = "noBinary" ->
         [terminates |-> TRUE, exit |-> 127, out |-> <<>>,
          err |-> <<"./main: not found", "NL">>]
    [] OTHER ->
         [terminates |-> TRUE, exit |-> 0, out |-> <<>>, err |-> <<>>]

\* The README's User Input Test, "greet", reads a name with scanf("%s")
\* and greets it; above stands what it writes before it reads.
\* scanf("%s"): the first run of text that is not white space, nothing at
\* the end of the input.
FirstToken(text) == IF TrimStart(text) = <<>> THEN <<>> ELSE <<TrimStart(text)[1]>>

\* What printf("%s") finds in name[100] when scanf has stored nothing: the
\* array is not initialised, so this is whatever the stack held.
Uninitialised == {<<>>, <<"(garbage)">>}

\* What the program writes to its standard output when its standard input
\* holds text, junk being what an array it never filled holds.
Stdout(p, text, junk) ==
  IF p = "greet"
    THEN Program(p).out
           \o <<"Hello, ">> \o (IF FirstToken(text) # <<>> THEN FirstToken(text) ELSE junk)
           \o <<"!", "NL">>
    ELSE Program(p).out

\* The exit codes above and the shell's, in decimal, as `echo` prints them
\* and as parseInt reads them back.
ExitCodes == {0, 1, 124, 127, 139}

Decimal(n) ==
  CASE n = 0 -> "0"
    [] n = 1 -> "1"
    [] n = 124 -> "124"
    [] n = 127 -> "127"
    [] n = 139 -> "139"

IsDecimal(t) == \E n \in ExitCodes : Decimal(n) = t

\* parseInt(s): leading white space is skipped, then the leading digits
\* are read; NaN when there are none.
ParseInt(s) ==
  LET t == TrimStart(s)
  IN IF t # <<>> /\ IsDecimal(t[1])
       THEN Num(CHOOSE n \in ExitCodes : Decimal(n) = t[1])
       ELSE NaN

\* req.body.code as the client sends it: absent, not a string, the empty
\* string, one of the programs, or a program padded past the size ceiling.
CodeMissing == [k |-> "undefined", prog |-> "", len |-> 0]
CodeNumber == [k |-> "number", prog |-> "", len |-> 0]
CodeEmpty == [k |-> "string", prog |-> "", len |-> 0]
CodeOf(p) == [k |-> "string", prog |-> p, len |-> SourceLength(p)]
CodeCeiling == 1024 * 1024
CodeTooLarge == [k |-> "string", prog |-> "hello", len |-> CodeCeiling + 1]

\* The stdin field: absent (the handler defaults it to '') or given.
NoStdin == [given |-> FALSE, text |-> <<>>]
StdinJohn == [given |-> TRUE, text |-> <<"John", "NL">>]

Bodies ==
  {[code |-> c, stdin |-> NoStdin] :
     c \in {CodeMissing, CodeNumber, CodeEmpty, CodeTooLarge} \cup {CodeOf(p) : p \in Programs}}

\* The bodies of the clients that run the User Input Test, with and
\* without input, and one that is refused for its size.
InputBodies ==
  {[code |-> CodeOf("greet"), stdin |-> i] : i \in {NoStdin, StdinJohn}}
    \cup {[code |-> CodeTooLarge, stdin |-> NoStdin]}

\* The size of the JSON document carrying a body: at least the characters
\* of the code string and the 11 bytes of {"code":""}.
JsonBytes(body) == body.code.len + 11

\* bodyParser.json({ limit: '1mb' })
BodyLimit == 1024 * 1024

(* ------------- the isolated environment, as the backend sees it ------- *)

\* The two files that serve POST /api/run.
Servers == {"index", "interactiveServer"}

\* How one `docker run` invocation goes: the container runs to its end,
\* the invoking child process outlives the timeout given to exec/execFile
\* and is killed by it, or docker cannot be executed at all.
Invocations == {"ran", "timeout", "launchFail"}

\* The callback arguments (error, stdout, stderr) of the build invocation.
\* index.js goes through exec, so a missing docker is the shell's exit
\* code 127 and its message; execFile reports the spawn error itself.
BuildCallback(server, p, how) ==
  CASE how = "ran" ->
         [error |-> IF Gcc(p).exit = 0 THEN NoError ELSE ExecError(Num(Gcc(p).exit), FALSE),
          stdout |-> <<>>, stderr |-> Gcc(p).diagnostics]
    [] how = "timeout" ->
         [error |-> ExecError(Null, TRUE), stdout |-> <<>>, stderr |-> <<>>]
    [] how = "launchFail" ->
         IF server = "index"
           THEN [error |-> ExecError(Num(127), FALSE), stdout |-> <<>>,
                 stderr |-> <<"/bin/sh 1 docker not found", "NL">>]
           ELSE [error |-> ExecError(Str("ENOENT"), FALSE), stdout |-> <<>>, stderr |-> <<>>]

\* `timeout 3s ./main`: the program's own exit code, or 124 when the
\* program had to be killed at the deadline.
TimeoutSentinel == 124
TimeoutExit(p) == IF Program(p).terminates THEN Program(p).exit ELSE TimeoutSentinel

\* What the sh -c script of index.js prints: the exit code line, then the
\* two captured files after their marker lines.
ScriptOutput(p, out) ==
  <<"EXIT_CODE:", Decimal(TimeoutExit(p)), "NL", "---STDOUT---", "NL">>
    \o out \o <<"---STDERR---", "NL">> \o Program(p).err

\* The callback arguments of the run invocation, out being what the
\* program wrote to its standard output.  index.js runs the script above
\* (its last command succeeds, so docker exits with 0);
\* interactiveServer.js runs ./main itself, under execFile's 3 s timeout.
RunCallback(server, p, how, out) ==
  CASE how = "launchFail" ->
         IF server = "index"
           THEN [error |-> ExecError(Num(127), FALSE), stdout |-> <<>>,
                 stderr |-> <<"/bin/sh 1 docker not found", "NL">>]
           ELSE [error |-> ExecError(Str("ENOENT"), FALSE), stdout |-> <<>>, stderr |-> <<>>]
    [] how = "timeout" ->
         [error |-> ExecError(Null, TRUE), stdout |-> <<>>, stderr |-> <<>>]
    [] how = "ran" /\ server = "index" ->
         [error |-> NoError, stdout |-> ScriptOutput(p, out), stderr |-> <<>>]
    [] how = "ran" /\ server # "index" /\ Program(p).terminates ->
         [error |-> IF Program(p).exit = 0 THEN NoError
                    ELSE ExecError(Num(Program(p).exit), FALSE),
          stdout |-> out, stderr |-> Program(p).err]
    [] OTHER ->
         [error |-> ExecError(Null, TRUE), stdout |-> out, stderr |-> Program(p).err]

\* Which deadline, if any, ended the run: the `timeout 3s` inside the
\* container, or the timeout of exec/execFile outside it.
DeadlineKill(server, p, how) ==
  CASE how = "timeout" -> "outer"
    [] how = "ran" /\ ~Program(p).terminates -> IF server = "index" THEN "inner" ELSE "outer"
    [] OTHER -> "none"

\* The resource options of a `docker run` command line; "" stands for an
\* option that is not given.
Caps(memory, cpus, pids, network, user) ==
  [memory |-> memory, cpus |-> cpus, pids |-> pids, network |-> network, user |-> user]

\* compileCmd and executeCmd of POST /api/run, the same in both files.
BuildCaps == Caps("256m", "0.5", "", "none", "1000:1000")
RunCaps == Caps("256m", "0.5", "64", "none", "1000:1000")

\* compileCmd and the pty.spawn arguments of the WebSocket server.
SessionBuildCaps == Caps("", "", "", "", "")
SessionRunCaps == Caps("", "", "", "", "")

\* The deadlines of a batch run in milliseconds, 0 for none: `timeout 3s`
\* inside the container, and the timeout option of exec/execFile.
InnerDeadline(srv) == IF srv = "index" THEN 3000 ELSE 0
OuterTimeout(srv) == IF srv = "index" THEN 15000 ELSE 3000

\* The timeout option of the build's exec/execFile in milliseconds, 0 for
\* none: 10000 in POST /api/run of both files; the WebSocket server calls
\* exec(compileCmd.join(' '), callback) with no options.
BuildTimeout(mode) == IF mode = "batch" THEN 10000 ELSE 0

(* ------------------------ compileCode, executeCode -------------------- *)

\* index.js compileCode: the exec callback.
compileCodeIndex(cb) ==
  IF cb.error.isError
    THEN [error |-> TRUE, stdout |-> cb.stdout, stderr |-> cb.stderr,
          exitCode |-> OrElse(cb.error.code, Num(1))]
    ELSE [error |-> FALSE, stdout |-> cb.stdout, stderr |-> cb.stderr, exitCode |-> Num(0)]

\* interactiveServer.js compileCode: the execFile callback.
compileCodeServer(cb) ==
  [error |-> cb.error.isError,
   stdout |-> Trim(cb.stdout),
   stderr |-> Trim(cb.stderr),
   exitCode |-> OrElse(IF cb.error.isError THEN cb.error.code ELSE Undefined, Num(0))]

\* compileCode as it would be if a failed build were not reported as an
\* error: C9 does not hold of it.
compileCodeNeverFails(server, cb) ==
  [(IF server = "index" THEN compileCodeIndex(cb) ELSE compileCodeServer(cb))
     EXCEPT !.error = FALSE]

compileCode(server, cb) ==
  IF server = "index" THEN compileCodeIndex(cb) ELSE compileCodeServer(cb)

\* The largest of the line numbers (from 1) in hits, 0 when there is none:
\* what the marker loop of executeCode is left with, each later match
\* overwriting the earlier one.
LastLine(hits) ==
  IF hits = {} THEN 0 ELSE CHOOSE i \in hits : \A j \in hits : j <= i

StartsWithExitCode(line) == line # <<>> /\ line[1] = "EXIT_CODE:"
IsStdoutMarker(line) == line = <<"---STDOUT---">>
IsStderrMarker(line) == line = <<"---STDERR---">>

\* exitCodeLine.split(':')[1] of a line that starts with EXIT_CODE: what
\* stands between its first colon and the next one.  A colon occurs in the
\* output only as the end of the token "EXIT_CODE:".
ExitCodeField(line) ==
  LET rest == Tail(line)
      stops == {i \in 1..Len(rest) : rest[i] = "EXIT_CODE:"}
  IN IF stops = {} THEN rest
     ELSE SubSeq(rest, 1, (CHOOSE i \in stops : \A j \in stops : i <= j) - 1)

\* index.js executeCode: the exec callback.  The output is split at the
\* two characters backslash n, as the source writes the separator.
executeCodeIndex(cb) ==
  LET lines == Split(cb.stdout, "BSN")
      at == 1..Len(lines)
      exitCodeAt == LastLine({i \in at : StartsWithExitCode(lines[i])})
      stdoutStartIndex ==
        LET i == LastLine({i \in at : IsStdoutMarker(lines[i])}) IN IF i = 0 THEN -1 ELSE i
      stderrStartIndex ==
        LET i == LastLine({i \in at : IsStderrMarker(lines[i])}) IN IF i = 0 THEN -1 ELSE i
      exitCode ==
        IF exitCodeAt # 0 THEN ParseInt(ExitCodeField(lines[exitCodeAt]))
        ELSE IF cb.error.isError THEN OrElse(cb.error.code, Num(1))
        ELSE Num(0)
      programStdout ==
        IF stdoutStartIndex # -1 /\ stderrStartIndex # -1
          THEN Join(Slice(lines, stdoutStartIndex, stderrStartIndex - 1), "BSN")
          ELSE <<>>
      programStderr ==
        IF stderrStartIndex # -1
          THEN Join(Slice(lines, stderrStartIndex, Len(lines)), "BSN")
          ELSE <<>>
      timedOut == exitCode = Num(TimeoutSentinel)
  IN [stdout |-> programStdout,
      stderr |-> programStderr,
      exitCode |-> IF timedOut THEN Num(TimeoutSentinel) ELSE exitCode,
      timedOut |-> timedOut]

\* interactiveServer.js executeCode: the execFile callback.
executeCodeServer(cb) ==
  [stdout |-> Trim(cb.stdout),
   stderr |-> Trim(cb.stderr),
   exitCode |-> OrElse(IF cb.error.isError THEN cb.error.code ELSE Undefined, Num(0)),
   timedOut |-> cb.error.isError /\ cb.error.killed]

executeCode(server, cb) ==
  IF server = "index" THEN executeCodeIndex(cb) ELSE executeCodeServer(cb)

(* ------------------------------- state -------------------------------- *)

VARIABLES
  server,    \* which backend file serves POST /api/run
  req,       \* the batch requests: where each handler stands, and its response
  fs,        \* the workspace directories under os.tmpdir() and their files
  nextUuid,  \* the uuidv4() values handed out so far
  conn,      \* the WebSocket connections of the interactive server
  compiles,  \* the build invocations of the interactive server in flight
  procs,     \* the terminal-attached processes spawned by pty.spawn
  inbound,   \* how often the clients have connected or sent a message
  written    \* how many chunks the processes have written to their terminals

wsVars == <<conn, compiles, procs, inbound, written>>
vars == <<server, req, fs, nextUuid, conn, compiles, procs, inbound, written>>

Requests == 1..MaxRequests

\* A response body with its HTTP status; status 0 stands for no response yet.
Response(status, stdout, stderr, compileError, exitCode, timedOut) ==
  [status |-> status, stdout |-> stdout, stderr |-> stderr,
   compileError |-> compileError, exitCode |-> exitCode, timedOut |-> timedOut]

NoResponse == Response(0, <<>>, <<>>, <<>>, Undefined, FALSE)

\* How often the handler of one request has called each stage.
NoCalls ==
  [uuidv4 |-> 0, createWorkspace |-> 0, compileCode |-> 0, executeCode |-> 0,
   cleanupWorkspace |-> 0, respond |-> 0]

\* A request before it arrives.  failedAt records the step at which
\* createWorkspace rejected; build, run and kill record how the two docker
\* invocations went and which deadline killed the run; cleanup records
\* what cleanupWorkspace found and did.
NoRequest ==
  [pc |-> "idle", body |-> [code |-> CodeMissing, stdin |-> NoStdin], runId |-> 0,
   failedAt |-> "none", build |-> "none", run |-> "none", kill |-> "none",
   response |-> NoResponse, calls |-> NoCalls, cleanup |-> "none"]

Connections == 1..MaxClientSteps

\* A connection before it is made.  term is ws.term, the number of the
\* process last spawned for it (0: not set); sent is what ws.send was
\* given, each event with whether the socket was open then.
NoConnection == [ws |-> "none", sessionId |-> 0, term |-> 0, sent |-> <<>>]

InitState ==
  /\ req = [r \in Requests |-> NoRequest]
  /\ fs = [dirs |-> {}, files |-> {}]
  /\ nextUuid = 1
  /\ conn = [c \in Connections |-> NoConnection]
  /\ compiles = {}
  /\ procs = <<>>
  /\ inbound = 0
  /\ written = 0

Init == server \in Servers /\ InitState

(* ------------------------- the workspace on disk ---------------------- *)

File(dir, name, data) == [dir |-> dir, name |-> name, data |-> data]

\* fs.mkdir(workspaceDir, { recursive: true })
Mkdir(fsys, dir) == [fsys EXCEPT !.dirs = @ \cup {dir}]

\* fs.writeFile(path.join(workspaceDir, name), data), and what a container
\* writes into the bind-mounted /workspace.
WriteFile(fsys, dir, name, data) ==
  [fsys EXCEPT !.files = {f \in @ : ~(f.dir = dir /\ f.name = name)} \cup {File(dir, name, data)}]

\* cleanupWorkspace as it would be if it removed nothing: C3 does not hold
\* of it.
cleanupWorkspaceKeeps(fsys, dir, removed) == fsys

\* cleanupWorkspace: remove the directory if it exists; a failing rmSync
\* (removed = FALSE) is caught and logged, and leaves everything in place.
cleanupWorkspace(fsys, dir, removed) ==
  IF dir \in fsys.dirs /\ removed
    THEN [dirs |-> fsys.dirs \ {dir}, files |-> {f \in fsys.files : f.dir # dir}]
    ELSE fsys

\* What the call above found: nothing to remove, removed, or rmSync threw.
CleanupOutcome(fsys, dir, removed) ==
  IF dir \notin fsys.dirs THEN "absent" ELSE IF removed THEN "removed" ELSE "failed"

(* ------------------------- POST /api/run responses -------------------- *)

\* The validation as it would be with `!code` alone, which lets a number
\* through: C4 does not hold of it.
IsFalsyCode(code) ==
  \/ code.k = "undefined"
  \/ code.k = "string" /\ code.len = 0

\* !code || typeof code !== 'string'
IsInvalidCode(code) ==
  \/ code.k = "undefined"
  \/ code.k = "string" /\ code.len = 0
  \/ code.k # "string"

InvalidCodeResponse ==
  Response(400, <<>>, <<"Invalid code provided">>, <<>>, Num(-1), FALSE)

CodeTooLargeResponse ==
  Response(400, <<>>, <<"Code too large (max 1MB)">>, <<>>, Num(-1), FALSE)

\* The compile-failure response as it would be if it also carried the
\* build's streams as stdout and stderr: C1 does not hold of it.
CompileFailureWithStreams(compileResult) ==
  Response(200, compileResult.stdout, compileResult.stderr, compileResult.stderr,
           compileResult.exitCode, FALSE)

CompileFailureResponse(compileResult) ==
  Response(200, <<>>, <<>>, compileResult.stderr, compileResult.exitCode, FALSE)

RunResponse(executeResult) ==
  Response(200, executeResult.stdout, executeResult.stderr, <<>>,
           executeResult.exitCode, executeResult.timedOut)

\* The catch block as it would be if it answered like a run that failed:
\* C19 does not hold of it.
InternalErrorAsResult(message) ==
  Response(200, <<>>, <<"Internal server error: ", message>>, <<>>, Num(1), FALSE)

\* The catch block of the handler.
InternalErrorResponse(message) ==
  Response(500, <<>>, <<"Internal server error: ", message>>, <<>>, Num(-1), FALSE)

\* The error middleware, which answers what body-parser refuses.
ErrorMiddlewareResponse ==
  Response(500, <<>>, <<"Internal server error">>, <<>>, Num(-1), FALSE)

(* --------------------------- POST /api/run ---------------------------- *)

\* uuidv4() as it would be if it gave every caller the same value: C22
\* does not hold of it.
uuidv4Repeats(n) == 1

\* uuidv4(): the n-th call gives a value no earlier call gave.
uuidv4(n) == n

\* Requests are told apart only by their number: they arrive in its order.
Arrives(r) == req[r].pc = "idle" /\ \A earlier \in 1..(r - 1) : req[earlier].pc # "idle"

\* A handler whose catch block answers again after the try block has
\* answered: C21 does not hold of it.
RespondAndAgain(q, response) ==
  [q EXCEPT !.response = response, !.calls.respond = @ + 2]

\* res.json(...) of a response.
Respond(q, response) ==
  [q EXCEPT !.response = response, !.calls.respond = @ + 1]

\* The handler as it would be with the cleanup at the end of the try block
\* instead of in finally, so that the paths that return or throw earlier
\* skip it: C23 does not hold of it.
FinallyOnlyAfterRun(r, q, fsys, removed) ==
  /\ req' = [req EXCEPT ![r] =
               [q EXCEPT !.pc = "done",
                         !.cleanup = IF q.run = "none" THEN "none"
                                     ELSE CleanupOutcome(fsys, q.runId, removed),
                         !.calls.cleanupWorkspace = IF q.run = "none" THEN @ ELSE @ + 1]]
  /\ fs' = IF q.run = "none" THEN fsys ELSE cleanupWorkspace(fsys, q.runId, removed)

\* The finally block: cleanupWorkspace(workspaceDir) on the files as the
\* step leaves them, which ends the handler.
Finally(r, q, fsys, removed) ==
  /\ req' = [req EXCEPT ![r] =
               [q EXCEPT !.pc = "done",
                         !.cleanup = CleanupOutcome(fsys, q.runId, removed),
                         !.calls.cleanupWorkspace = @ + 1]]
  /\ fs' = cleanupWorkspace(fsys, q.runId, removed)

\* body-parser refuses a JSON document over its limit; the error reaches
\* the error middleware and the handler never runs.
JsonBodyTooLarge(r) ==
  /\ Arrives(r)
  /\ \E body \in Bodies :
       /\ JsonBytes(body) > BodyLimit
       /\ req' = [req EXCEPT ![r] =
                    Respond([@ EXCEPT !.pc = "done", !.body = body], ErrorMiddlewareResponse)]
  /\ UNCHANGED <<server, fs, nextUuid>>
  /\ UNCHANGED wsVars

\* The handler up to its first await, for a request drawn from bodies:
\* validation, then uuidv4() and the call of createWorkspace.
ApiRunOn(r, bodies) ==
  /\ Arrives(r)
  /\ \E body \in bodies :
       /\ JsonBytes(body) <= BodyLimit
       /\ LET q == [req[r] EXCEPT !.body = body]
          IN IF IsInvalidCode(body.code)
               THEN /\ req' = [req EXCEPT ![r] =
                                 Respond([q EXCEPT !.pc = "done"], InvalidCodeResponse)]
                    /\ UNCHANGED nextUuid
             ELSE IF body.code.len > CodeCeiling
               THEN /\ req' = [req EXCEPT ![r] =
                                 Respond([q EXCEPT !.pc = "done"], CodeTooLargeResponse)]
                    /\ UNCHANGED nextUuid
             ELSE /\ req' = [req EXCEPT ![r] =
                               [q EXCEPT !.pc = "mkdir", !.runId = uuidv4(nextUuid),
                                         !.calls.uuidv4 = @ + 1,
                                         !.calls.createWorkspace = @ + 1]]
                  /\ nextUuid' = nextUuid + 1
  /\ UNCHANGED <<server, fs>>
  /\ UNCHANGED wsVars

ApiRun(r) == ApiRunOn(r, Bodies)

\* The same handler, for the clients that run the User Input Test.
ApiRunInput(r) == ApiRunOn(r, InputBodies)

\* createWorkspace rejects: the catch block answers 500, then finally.
CreateWorkspaceFails(r, message) ==
  \E removed \in BOOLEAN :
    Finally(r, Respond([req[r] EXCEPT !.failedAt = message], InternalErrorResponse(message)),
            fs, removed)

\* createWorkspace: the callback of fs.mkdir.
MkdirDone(r) ==
  /\ req[r].pc = "mkdir"
  /\ \/ /\ fs' = Mkdir(fs, req[r].runId)
        /\ req' = [req EXCEPT ![r].pc = "writeMain"]
     \/ CreateWorkspaceFails(r, "mkdir")
  /\ UNCHANGED <<server, nextUuid>>
  /\ UNCHANGED wsVars

\* createWorkspace: the callback of fs.writeFile(mainPath, code).
WriteMainDone(r) ==
  /\ req[r].pc = "writeMain"
  /\ \/ /\ fs' = WriteFile(fs, req[r].runId, "main.c", <<req[r].body.code.prog>>)
        /\ req' = [req EXCEPT ![r].pc = "writeInput"]
     \/ CreateWorkspaceFails(r, "write main.c")
  /\ UNCHANGED <<server, nextUuid>>
  /\ UNCHANGED wsVars

\* createWorkspace as it would be if it resolved when main.c is written,
\* without waiting for input.txt: C24 does not hold of it.
WriteInputNotAwaited(r) ==
  /\ req[r].pc = "writeInput"
  /\ req' = [req EXCEPT ![r].pc = "compileCode", ![r].calls.compileCode = @ + 1]
  /\ UNCHANGED <<server, fs, nextUuid>>
  /\ UNCHANGED wsVars

\* createWorkspace: the callback of fs.writeFile(inputPath, stdin); on
\* success the handler goes on to call compileCode.
WriteInputDone(r) ==
  /\ req[r].pc = "writeInput"
  /\ \/ /\ fs' = WriteFile(fs, req[r].runId, "input.txt", req[r].body.stdin.text)
        /\ req' = [req EXCEPT ![r].pc = "compileCode", ![r].calls.compileCode = @ + 1]
     \/ CreateWorkspaceFails(r, "write input.txt")
  /\ UNCHANGED <<server, nextUuid>>
  /\ UNCHANGED wsVars

\* What the file called name in the workspace dir holds, missing when
\* there is none.
Found(fsys, dir, name, missing) ==
  LET held == {f \in fsys.files : f.dir = dir /\ f.name = name}
  IN IF held = {} THEN missing ELSE (CHOOSE f \in held : TRUE).data

\* The main.c gcc finds in /workspace, and the ./main the run container
\* finds there: both containers work on the bind-mounted directory.
SourceIn(fsys, dir) == Found(fsys, dir, "main.c", <<"noSource">>)[1]
BinaryIn(fsys, dir) == Found(fsys, dir, "main", <<"noBinary">>)[1]

\* The build container writes ./main when gcc succeeds.
AfterBuild(fsys, dir, p, how) ==
  IF how = "ran" /\ Gcc(p).exit = 0 /\ dir \in fsys.dirs
    THEN WriteFile(fsys, dir, "main", <<p>>)
    ELSE fsys

\* What ./main finds on its standard input: index.js redirects it from
\* input.txt; interactiveServer.js attaches nothing to the container, so
\* the program reads the end of the input at once.
StdinOf(fsys, dir) ==
  IF server = "index" THEN Found(fsys, dir, "input.txt", <<>>) ELSE <<>>

\* The run container of index.js writes the two capture files.
AfterRun(fsys, dir, p, how, out) ==
  IF how = "ran" /\ server = "index" /\ dir \in fsys.dirs
    THEN WriteFile(WriteFile(fsys, dir, "program.out", out),
                   dir, "program.err", Program(p).err)
    ELSE fsys

\* The callback of the build invocation and the handler after
\* `await compileCode`: a failed build is answered at once, otherwise
\* executeCode is called.
CompileDone(r) ==
  /\ req[r].pc = "compileCode"
  /\ \E how \in Invocations :
       LET p == SourceIn(fs, req[r].runId)
           compileResult == compileCode(server, BuildCallback(server, p, how))
           built == AfterBuild(fs, req[r].runId, p, how)
           q == [req[r] EXCEPT !.build = how]
       IN IF compileResult.error
            THEN \E removed \in BOOLEAN :
                   Finally(r, Respond(q, CompileFailureResponse(compileResult)), built, removed)
            ELSE /\ req' = [req EXCEPT ![r] =
                              [q EXCEPT !.pc = "executeCode", !.calls.executeCode = @ + 1]]
                 /\ fs' = built
  /\ UNCHANGED <<server, nextUuid>>
  /\ UNCHANGED wsVars

\* The callback of the run invocation and the handler after
\* `await executeCode`: the response, then finally.
ExecuteDone(r) ==
  /\ req[r].pc = "executeCode"
  /\ \E how \in Invocations, removed \in BOOLEAN,
        out \in {Stdout(BinaryIn(fs, req[r].runId), StdinOf(fs, req[r].runId), junk) :
                   junk \in Uninitialised} :
       LET p == BinaryIn(fs, req[r].runId)
           executeResult == executeCode(server, RunCallback(server, p, how, out))
           q == [req[r] EXCEPT !.run = how, !.kill = DeadlineKill(server, p, how)]
       IN Finally(r, Respond(q, RunResponse(executeResult)),
                  AfterRun(fs, req[r].runId, p, how, out), removed)
  /\ UNCHANGED <<server, nextUuid>>
  /\ UNCHANGED wsVars

Next ==
  \E r \in Requests :
    \/ JsonBodyTooLarge(r)
    \/ ApiRun(r)
    \/ MkdirDone(r)
    \/ WriteMainDone(r)
    \/ WriteInputDone(r)
    \/ CompileDone(r)
    \/ ExecuteDone(r)

Spec == Init /\ [][Next]_vars

\* POST /api/run when the requests are those of the User Input Test.
NextInput ==
  \E r \in Requests :
    \/ JsonBodyTooLarge(r)
    \/ ApiRunInput(r)
    \/ MkdirDone(r)
    \/ WriteMainDone(r)
    \/ WriteInputDone(r)
    \/ CompileDone(r)
    \/ ExecuteDone(r)

SpecInput == Init /\ [][NextInput]_vars

\* The bodies that take the handler down each of its paths: refused by
\* validation, failing to build, built and run to the end of the program,
\* built and run into the deadline.
PathBodies ==
  {[code |-> c, stdin |-> NoStdin] :
     c \in {CodeMissing} \cup {CodeOf(p) : p \in {"syntaxError", "segfault", "loop"}}}

ApiRunPaths(r) == ApiRunOn(r, PathBodies)

NextPaths ==
  \E r \in Requests :
    \/ JsonBodyTooLarge(r)
    \/ ApiRunPaths(r)
    \/ MkdirDone(r)
    \/ WriteMainDone(r)
    \/ WriteInputDone(r)
    \/ CompileDone(r)
    \/ ExecuteDone(r)

SpecPaths == Init /\ [][NextPaths]_vars

(* ------------------- the interactive WebSocket server ----------------- *)

\* The sources sent in `code` messages; "exit124" writes nothing.
SessionPrograms == {"hello", "loop", "syntaxError", "exit124"}

\* What a process writes to its terminal in one chunk: its text, plain or
\* after a colour sequence.
TerminalChunks(p) == {Program(p).out, <<"ESC", "[", "0", "m">> \o Program(p).out}

\* stripAnsiSequences(data.toString()) of the data handler, for each chunk
\* a process can write.
Stripped ==
  [chunk \in UNION {TerminalChunks(p) : p \in SessionPrograms} |->
     stripAnsiSequences(chunk)]

\* The payload of a `stdin` message: the line typed on connection c as the
\* n-th step of the clients, no two messages carrying the same line.
InputLine(c, n) == [from |-> c, line |-> n]

Event(type, data) == [type |-> type, data |-> data]

\* ws.send(JSON.stringify(event)) from a callback of process pid, as the
\* n-th chunk that process wrote (0, 0 where no process is involved): the
\* socket is the ws the callback closed over.
SendFor(cn, event, pid, n) ==
  [cn EXCEPT !.sent = Append(@, [type |-> event.type, data |-> event.data,
                                 open |-> cn.ws = "open",
                                 pid |-> pid, n |-> n])]

\* ws.send(JSON.stringify(event))
Send(cn, event) == SendFor(cn, event, 0, 0)

\* The connection handler as it would be if the workspace path did not
\* come from the session's own id but were one fixed directory: C31 does
\* not hold of it.
ConnectionInOneDirectory(c) ==
  /\ conn[c].ws = "none"
  /\ \A earlier \in 1..(c - 1) : conn[earlier].ws # "none"
  /\ inbound < MaxClientSteps
  /\ conn' = [conn EXCEPT ![c] = [@ EXCEPT !.ws = "open", !.sessionId = 1]]
  /\ fs' = Mkdir(fs, 1)
  /\ nextUuid' = nextUuid + 1
  /\ inbound' = inbound + 1
  /\ UNCHANGED <<server, req, compiles, procs, written>>

\* wss.on('connection'): a session id, and the workspace directory made.
Connection(c) ==
  /\ conn[c].ws = "none"
  /\ \A earlier \in 1..(c - 1) : conn[earlier].ws # "none"
  /\ inbound < MaxClientSteps
  /\ conn' = [conn EXCEPT ![c] = [@ EXCEPT !.ws = "open", !.sessionId = uuidv4(nextUuid)]]
  /\ fs' = Mkdir(fs, uuidv4(nextUuid))
  /\ nextUuid' = nextUuid + 1
  /\ inbound' = inbound + 1
  /\ UNCHANGED <<server, req, compiles, procs, written>>

\* ws.on('message') with data.type === 'code': main.c is written and the
\* build invocation started; nothing else is looked at.
MessageCode(c) ==
  /\ conn[c].ws = "open"
  /\ inbound < MaxClientSteps
  /\ \E p \in SessionPrograms :
       /\ fs' = WriteFile(fs, conn[c].sessionId, "main.c", <<p>>)
       /\ compiles' = compiles \cup {[conn |-> c, id |-> inbound + 1, prog |-> p]}
  /\ inbound' = inbound + 1
  /\ UNCHANGED <<server, req, nextUuid, conn, procs, written>>

\* ws.on('message') with data.type === 'stdin': written to ws.term when it
\* is set.
MessageStdin(c) ==
  /\ conn[c].ws = "open"
  /\ inbound < MaxClientSteps
  /\ procs' = IF conn[c].term # 0
                THEN [procs EXCEPT ![conn[c].term].stdin = Append(@, InputLine(c, inbound + 1))]
                ELSE procs
  /\ inbound' = inbound + 1
  /\ UNCHANGED <<server, req, fs, nextUuid, conn, compiles, written>>

\* The main.c gcc may have read: the one written when the build was
\* started, or the one a later `code` message has put in its place.
SourcesSeen(k) ==
  {k.prog} \cup {f.data[1] : f \in {g \in fs.files :
                                      g.dir = conn[k.conn].sessionId /\ g.name = "main.c"}}

\* `docker run -v workspaceDir:/workspace`: docker makes the host
\* directory of a bind mount when it does not exist.
DockerBindMount(fsys, dir) == Mkdir(fsys, dir)

\* pty.spawn as it would be if input that arrived before the spawn had
\* been kept and were handed to the new process: C28 does not hold of it.
PtySpawnReplaysInput(c, p) ==
  [owner |-> c, prog |-> p, live |-> TRUE, stdin |-> <<InputLine(c, inbound)>>,
   spawnedAt |-> Len(conn[c].sent), firstOut |-> 0, exitAt |-> 0,
   wrote |-> 0]

\* pty.spawn('docker', ['run', ..., './main']), assigned to ws.term.
\* spawnedAt is how much had been sent on the owner's socket by then;
\* firstOut and exitAt are the places, in what was sent on it, of the first
\* stdout event and of the exit event of this process (0: none yet).
PtySpawn(c, p) ==
  [owner |-> c, prog |-> p, live |-> TRUE, stdin |-> <<>>,
   spawnedAt |-> Len(conn[c].sent), firstOut |-> 0, exitAt |-> 0,
   wrote |-> 0]

\* The exec callback of a build: an error is sent as compileError;
\* otherwise the program is spawned on a terminal and its handlers set.
CompileCallback(k) ==
  /\ k \in compiles
  /\ compiles' = compiles \ {k}
  /\ \E how \in {"ran", "launchFail"}, p \in SourcesSeen(k) :
       LET cb == BuildCallback("index", p, how)
           c == k.conn
       IN IF cb.error.isError
            THEN /\ conn' = [conn EXCEPT ![c] = Send(@, Event("compileError", cb.stderr))]
                 /\ UNCHANGED <<fs, procs>>
            ELSE /\ fs' = DockerBindMount(AfterBuild(fs, conn[c].sessionId, p, how),
                                       conn[c].sessionId)
                 /\ procs' = Append(procs, PtySpawn(c, p))
                 /\ conn' = [conn EXCEPT ![c].term = Len(procs) + 1]
  /\ UNCHANGED <<server, req, nextUuid, inbound, written>>

\* What is left for a running process to write: a program that ends by
\* itself writes its text in one chunk, an endless one goes on writing.
HasOutput(pid) ==
  IF Program(procs[pid].prog).terminates
    THEN Program(procs[pid].prog).out # <<>> /\ procs[pid].firstOut = 0
    ELSE written < MaxChunks

\* The data handler as it would be if it sent the chunk to every open
\* connection as well as its own: C30 does not hold of it.
TermDataToEveryClient(pid) ==
  /\ pid \in DOMAIN procs
  /\ procs[pid].live
  /\ HasOutput(pid)
  /\ \E chunk \in TerminalChunks(procs[pid].prog) :
       conn' = [c \in Connections |->
                  IF c = procs[pid].owner \/ conn[c].ws = "open"
                    THEN SendFor(conn[c], Event("stdout", Stripped[chunk]),
                                 pid, procs[pid].wrote + 1)
                    ELSE conn[c]]
  /\ procs' = [procs EXCEPT ![pid].firstOut =
                 IF @ = 0 THEN Len(conn[procs[pid].owner].sent) + 1 ELSE @,
                            ![pid].wrote = @ + 1]
  /\ written' = IF Program(procs[pid].prog).terminates THEN written ELSE written + 1
  /\ UNCHANGED <<server, req, fs, nextUuid, compiles, inbound>>

\* ws.term.on('data'): the chunk, stripped, is sent as a stdout event.
TermData(pid) ==
  /\ pid \in DOMAIN procs
  /\ procs[pid].live
  /\ HasOutput(pid)
  /\ \E chunk \in TerminalChunks(procs[pid].prog) :
       conn' = [conn EXCEPT ![procs[pid].owner] =
                  SendFor(@, Event("stdout", Stripped[chunk]),
                          pid, procs[pid].wrote + 1)]
  /\ procs' = [procs EXCEPT ![pid].firstOut =
                 IF @ = 0 THEN Len(conn[procs[pid].owner].sent) + 1 ELSE @,
                            ![pid].wrote = @ + 1]
  /\ written' = IF Program(procs[pid].prog).terminates THEN written ELSE written + 1
  /\ UNCHANGED <<server, req, fs, nextUuid, compiles, inbound>>

\* The exit handler as it would be if it sent nothing: C12 does not hold
\* of it.
TermExitUnannounced(pid) ==
  /\ pid \in DOMAIN procs
  /\ procs[pid].live
  /\ Program(procs[pid].prog).terminates
  /\ ~HasOutput(pid)
  /\ procs' = [procs EXCEPT ![pid].live = FALSE]
  /\ UNCHANGED <<server, req, fs, nextUuid, conn, compiles, inbound, written>>

\* ws.term.on('exit'): the program has ended, all it wrote has been
\* delivered; an exit event is sent.
TermExit(pid) ==
  /\ pid \in DOMAIN procs
  /\ procs[pid].live
  /\ Program(procs[pid].prog).terminates
  /\ ~HasOutput(pid)
  /\ procs' = [procs EXCEPT ![pid].live = FALSE,
                            ![pid].exitAt = Len(conn[procs[pid].owner].sent) + 1]
  /\ conn' = [conn EXCEPT ![procs[pid].owner] =
                SendFor(@, Event("exit", <<>>), pid, 0)]
  /\ UNCHANGED <<server, req, fs, nextUuid, compiles, inbound, written>>

\* ws.on('close'): the workspace is removed; a failing rmSync is caught.
Close(c) ==
  /\ conn[c].ws = "open"
  /\ conn' = [conn EXCEPT ![c].ws = "closed"]
  /\ \E removed \in BOOLEAN : fs' = cleanupWorkspace(fs, conn[c].sessionId, removed)
  /\ UNCHANGED <<server, req, nextUuid, compiles, procs, inbound, written>>

NextWs ==
  \/ \E c \in Connections :
       \/ Connection(c)
       \/ MessageCode(c)
       \/ MessageStdin(c)
       \/ Close(c)
  \/ \E k \in compiles : CompileCallback(k)
  \/ \E pid \in DOMAIN procs :
       \/ TermData(pid)
       \/ TermExit(pid)

InitWs == server = "interactiveServer" /\ InitState

SpecWs == InitWs /\ [][NextWs]_vars

\* The event loop goes on running the callbacks that are due: the exec
\* callback of a build once docker has ended, the data and exit handlers of
\* a terminal once its process has written or ended.
FairWs ==
  WF_vars(\/ \E k \in compiles : CompileCallback(k)
          \/ \E pid \in DOMAIN procs : TermData(pid) \/ TermExit(pid))

SpecWsLive == SpecWs /\ FairWs

(* ------------- sessions whose handlers throw (part_002) --------------- *)

\* The server process is running: no exception has gone uncaught.
ServerUp == \A c \in Connections : conn[c].ws # "lost"

\* An exception thrown in a listener with no try around it and no
\* 'uncaughtException' handler in the file: node ends the process.  The
\* socket the listener ran for and every open socket are lost without their
\* close handlers running, pending callbacks never run, and the handles of
\* the spawned processes are gone with the process that held them.
UncaughtException(c) ==
  /\ conn' = [e \in Connections |->
               IF e = c \/ conn[e].ws = "open" THEN [conn[e] EXCEPT !.ws = "lost"]
                                                ELSE conn[e]]
  /\ compiles' = {}
  /\ procs' = [pid \in DOMAIN procs |-> [procs[pid] EXCEPT !.live = FALSE]]

\* ws.on('message') on a message that is not JSON: JSON.parse(msg) throws.
MessageNotJson(c) ==
  /\ conn[c].ws = "open"
  /\ inbound < MaxClientSteps
  /\ UncaughtException(c)
  /\ inbound' = inbound + 1
  /\ UNCHANGED <<server, req, fs, nextUuid, written>>

\* wss.on('connection') when fs.mkdirSync(workspaceDir) throws.
ConnectionMkdirThrows(c) ==
  /\ conn[c].ws = "none"
  /\ \A earlier \in 1..(c - 1) : conn[earlier].ws # "none"
  /\ inbound < MaxClientSteps
  /\ UncaughtException(c)
  /\ nextUuid' = nextUuid + 1
  /\ inbound' = inbound + 1
  /\ UNCHANGED <<server, req, fs, written>>

\* The server with clients that also send what is not JSON and a
\* filesystem that can refuse a directory; nothing runs once the process
\* has ended.
NextFaulty ==
  \/ \E c \in Connections : ServerUp /\ Connection(c)
  \/ \E c \in Connections : ServerUp /\ ConnectionMkdirThrows(c)
  \/ \E c \in Connections : ServerUp /\ MessageCode(c)
  \/ \E c \in Connections : ServerUp /\ MessageStdin(c)
  \/ \E c \in Connections : ServerUp /\ MessageNotJson(c)
  \/ \E c \in Connections : ServerUp /\ Close(c)
  \/ \E k \in compiles : ServerUp /\ CompileCallback(k)
  \/ \E pid \in DOMAIN procs : ServerUp /\ TermData(pid)
  \/ \E pid \in DOMAIN procs : ServerUp /\ TermExit(pid)

SpecFaulty == InitWs /\ [][NextFaulty]_vars

(* ----------------- a terminal stream cut into chunks ------------------ *)

\* What a program can write to its terminal: any text, here over the
\* characters the patterns of stripAnsiSequences tell apart.
StreamAlphabet == {"ESC", "[", "]", "m", "BEL", "x"}

TerminalStreams ==
  UNION {[1..n -> StreamAlphabet] : n \in 1..MaxStream}

\* A session whose program is built and spawned on its terminal (the
\* state after the exec callback of part_002 L54-80), the program having
\* the stream s to write.
SpawnedWith(s) ==
  /\ server = "interactiveServer"
  /\ req = [r \in Requests |-> NoRequest]
  /\ fs = WriteFile(WriteFile(Mkdir([dirs |-> {}, files |-> {}], 1),
                              1, "main.c", <<"prints">>), 1, "main", <<"prints">>)
  /\ nextUuid = 2
  /\ conn = [c \in Connections |->
               IF c = 1 THEN [ws |-> "open", sessionId |-> 1, term |-> 1, sent |-> <<>>]
                        ELSE NoConnection]
  /\ compiles = {}
  /\ procs = <<[owner |-> 1, prog |-> "prints", live |-> TRUE, stdin |-> <<>>,
                spawnedAt |-> 0, firstOut |-> 0, exitAt |-> 0, wrote |-> 0,
                stream |-> s, read |-> 0]>>
  /\ inbound = 2
  /\ written = 0

InitTerm == \E s \in TerminalStreams : SpawnedWith(s)

\* ws.term.on('data') on the next piece of the stream, the pty cutting the
\* stream where it will: the piece, stripped by itself, is sent as a
\* stdout event.
TermDataPiece(pid) ==
  /\ pid \in DOMAIN procs
  /\ procs[pid].live
  /\ \E k \in 1..(Len(procs[pid].stream) - procs[pid].read) :
       LET data == SubSeq(procs[pid].stream, procs[pid].read + 1, procs[pid].read + k)
           cleaned == stripAnsiSequences(data)
       IN /\ conn' = [conn EXCEPT ![procs[pid].owner] =
                        SendFor(@, Event("stdout", cleaned), pid, procs[pid].wrote + 1)]
          /\ procs' = [procs EXCEPT ![pid].read = @ + k,
                                     ![pid].wrote = @ + 1,
                                     ![pid].firstOut =
                                       IF @ = 0 THEN Len(conn[procs[pid].owner].sent) + 1
                                                ELSE @]
  /\ UNCHANGED <<server, req, fs, nextUuid, compiles, inbound, written>>

\* ws.term.on('exit') once the whole stream has been delivered.
TermExitAfterStream(pid) ==
  /\ pid \in DOMAIN procs
  /\ procs[pid].live
  /\ procs[pid].read = Len(procs[pid].stream)
  /\ procs' = [procs EXCEPT ![pid].live = FALSE,
                            ![pid].exitAt = Len(conn[procs[pid].owner].sent) + 1]
  /\ conn' = [conn EXCEPT ![procs[pid].owner] =
                SendFor(@, Event("exit", <<>>), pid, 0)]
  /\ UNCHANGED <<server, req, fs, nextUuid, compiles, inbound, written>>

NextTerm ==
  \/ \E pid \in DOMAIN procs : TermDataPiece(pid)
  \/ \E pid \in DOMAIN procs : TermExitAfterStream(pid)

SpecTerm == InitTerm /\ [][NextTerm]_vars

(* ------------- batch requests and sessions on one host ---------------- *)

\* Batch requests and sessions make their workspaces in the same
\* os.tmpdir().  The message handlers and the callbacks of a session use
\* the workspaceDir of their closure and never assign it, so whose
\* workspace is whose is settled by the requests' handlers and by the
\* connection and close handlers alone.
HostBodies == {[code |-> CodeOf("hello"), stdin |-> NoStdin]}

ApiRunHost(r) == ApiRunOn(r, HostBodies)

\* The requests that arrive while sessions come and go.
HostRequests == 1..(MaxRequests - 1)

NextHost ==
  \/ \E r \in HostRequests :
       \/ ApiRunHost(r)
       \/ MkdirDone(r)
       \/ WriteMainDone(r)
       \/ WriteInputDone(r)
       \/ CompileDone(r)
       \/ ExecuteDone(r)
  \/ \E c \in Connections :
       \/ Connection(c)
       \/ Close(c)

SpecHost == InitWs /\ [][NextHost]_vars

(* ------------------------------ properties ---------------------------- *)

Responded(r) == req[r].response.status # 0
Done(r) == req[r].pc = "done"
ProgramOf(r) == req[r].body.code.prog

\* The build stage of request r was invoked and failed: gcc exited
\* non-zero, the build timed out, or docker could not be executed.
BuildFailed(r) ==
  \/ req[r].build \in {"timeout", "launchFail"}
  \/ req[r].build = "ran" /\ Gcc(ProgramOf(r)).exit # 0

\* The run container of request r ran the program to its own end.
RanToItsEnd(r) == req[r].run = "ran" /\ Program(ProgramOf(r)).terminates

\* C1: in every response of POST /api/run, a non-empty compileError comes
\* with empty stdout and stderr, and a non-empty stdout or stderr comes
\* with an empty compileError.
C1_MutualExclusivity ==
  \A r \in Requests :
    Responded(r) =>
      LET res == req[r].response
      IN /\ res.compileError # <<>> => res.stdout = <<>> /\ res.stderr = <<>>
         /\ (res.stdout # <<>> \/ res.stderr # <<>>) => res.compileError = <<>>

\* C1 witness: one response carries a compile error and another one
\* carries program output.
C1_Witness ==
  \E r1, r2 \in Requests :
    /\ Responded(r1) /\ req[r1].response.compileError # <<>>
    /\ Responded(r2) /\ req[r2].response.stdout # <<>>

\* C2: a request that reached the build stage is answered with exactly one
\* of a non-empty compileError and the result of the execution stage, and
\* with a non-empty compileError whenever its build failed.
C2_ExactlyOneOutcome ==
  \A r \in Requests :
    (Done(r) /\ req[r].build # "none") =>
      /\ (req[r].response.compileError # <<>>) # (req[r].calls.executeCode = 1)
      /\ BuildFailed(r) => req[r].response.compileError # <<>>

C4_InvalidRejectedWithoutEffect ==
  \A r \in Requests :
    LET code == req[r].body.code
    IN (req[r].pc # "idle" /\ (code.k # "string" \/ code.len = 0 \/ code.len > CodeCeiling)) =>
         /\ Done(r) /\ req[r].response.status >= 400
         /\ req[r].runId = 0
         /\ req[r].calls = [NoCalls EXCEPT !.respond = 1]
         /\ req[r].cleanup = "none"

\* C4 witness: an oversized code and a code that is not a string have both
\* been rejected.
C4_Witness ==
  \E r1, r2 \in Requests :
    /\ Done(r1) /\ req[r1].body.code = CodeTooLarge
    /\ Done(r2) /\ req[r2].body.code = CodeNumber

\* C5: a program that never ends by itself is answered with timedOut =
\* true and exit code 124.
C5_EndlessLoopTimesOut ==
  \A r \in Requests :
    (Done(r) /\ req[r].run \in {"ran", "timeout"} /\ ~Program(ProgramOf(r)).terminates) =>
      /\ req[r].response.timedOut
      /\ req[r].response.exitCode = Num(TimeoutSentinel)

\* C6: a run ended by a deadline, the inner or the outer one, is answered
\* with timedOut = true and exit code 124.
C6_DeadlineKillReported ==
  \A r \in Requests :
    (Done(r) /\ req[r].kill # "none") =>
      /\ req[r].response.timedOut
      /\ req[r].response.exitCode = Num(TimeoutSentinel)

\* C7: timedOut = true only when a deadline killed the run.
C7_TimedOutOnlyOnKill ==
  \A r \in Requests : (Done(r) /\ req[r].response.timedOut) => req[r].kill # "none"

\* C8: a program that ends by itself with exit code c is answered 200 with
\* exitCode = c, timedOut = false and an empty compileError.
C8_ExitCodeVerbatim ==
  \A r \in Requests :
    (Done(r) /\ RanToItsEnd(r)) =>
      /\ req[r].response.status = 200
      /\ req[r].response.exitCode = Num(Program(ProgramOf(r)).exit)
      /\ ~req[r].response.timedOut
      /\ req[r].response.compileError = <<>>

\* C9: after a failed build the execution stage is never invoked, and when
\* gcc exited non-zero the response is the build's: status 200, the
\* diagnostics (up to surrounding white space) in compileError, gcc's
\* exit code, nothing else.
C9_BuildFailureShortCircuits ==
  \A r \in Requests :
    /\ BuildFailed(r) => Done(r) /\ req[r].calls.executeCode = 0 /\ req[r].run = "none"
    /\ (req[r].build = "ran" /\ Gcc(ProgramOf(r)).exit # 0) =>
         LET res == req[r].response
         IN /\ res.status = 200
            /\ res.compileError # <<>>
            /\ Trim(res.compileError) = Trim(Gcc(ProgramOf(r)).diagnostics)
            /\ res.stdout = <<>> /\ res.stderr = <<>> /\ ~res.timedOut
            /\ res.exitCode = Num(Gcc(ProgramOf(r)).exit)

\* C9 witness: a request whose source gcc rejected has been answered.
C9_Witness ==
  \E r \in Requests : Done(r) /\ req[r].build = "ran" /\ Gcc(ProgramOf(r)).exit # 0

\* The processes spawned for connection c that are still running.
LiveProcesses(c) == {pid \in DOMAIN procs : procs[pid].owner = c /\ procs[pid].live}

\* C10: a session never has more than one live spawned process.
C10_AtMostOneLiveProcess ==
  \A c \in Connections : Cardinality(LiveProcesses(c)) <= 1

\* What has been sent on the socket of connection c, and where in it the
\* compileError events stand.
Sent(c) == conn[c].sent
CompileErrorsAt(c) == {i \in 1..Len(Sent(c)) : Sent(c)[i].type = "compileError"}

\* C11: once the client of a session has disconnected, no process of the
\* session is running, whether it was spawned before the disconnect or by
\* a build callback after it.
C11_NoProcessAfterDisconnect ==
  \A c \in Connections : conn[c].ws = "closed" => LiveProcesses(c) = {}

\* A process that ends by itself has been spawned as number pid.
Spawned(pid) == pid \in DOMAIN procs /\ Program(procs[pid].prog).terminates

\* The client of the process has disconnected.
OwnerClosed(pid) == pid \in DOMAIN procs /\ conn[procs[pid].owner].ws = "closed"

\* The exit event of the process has been sent.
Exited(pid) ==
  /\ pid \in DOMAIN procs
  /\ ~procs[pid].live
  /\ procs[pid].exitAt # 0
  /\ Sent(procs[pid].owner)[procs[pid].exitAt].type = "exit"

\* A stdout event of the process has been sent.
WroteFirst(pid) ==
  /\ pid \in DOMAIN procs
  /\ procs[pid].firstOut # 0
  /\ Sent(procs[pid].owner)[procs[pid].firstOut].type = "stdout"

\* C12 as claimed: every spawned process that ends by itself leads, while
\* the connection stays open, to at least one stdout event and then to an
\* exit event.
C12_OutputThenExit ==
  \A pid \in 1..MaxClientSteps :
    Spawned(pid) ~>
      (OwnerClosed(pid) \/
         (WroteFirst(pid) /\ Exited(pid) /\ procs[pid].firstOut < procs[pid].exitAt))

\* C12 as amended: every spawned process that ends by itself leads, while
\* the connection stays open, to an exit event, which comes after a stdout
\* event of the process whenever the program writes anything.
C12_ExitAfterWhatWasWritten ==
  \A pid \in 1..MaxClientSteps :
    Spawned(pid) ~>
      (OwnerClosed(pid) \/
         (/\ Exited(pid)
          /\ Program(procs[pid].prog).out # <<>> =>
                WroteFirst(pid) /\ procs[pid].firstOut < procs[pid].exitAt))

\* C12 witness: on an open connection a program that writes has sent its
\* text and then its exit event.
C12_Witness ==
  \E pid \in DOMAIN procs :
    /\ conn[procs[pid].owner].ws = "open"
    /\ Exited(pid) /\ WroteFirst(pid)
    /\ procs[pid].firstOut < procs[pid].exitAt

\* C13: a compileError event is the only one of its session and the last
\* thing sent on it, and no process is spawned after it.
C13_CompileErrorIsTerminal ==
  \A c \in Connections :
    \A i \in CompileErrorsAt(c) :
      /\ CompileErrorsAt(c) = {i}
      /\ i = Len(Sent(c))
      /\ \A pid \in DOMAIN procs : procs[pid].owner = c => procs[pid].spawnedAt < i

\* The session of connection c has reached its end: the client has
\* disconnected, a compileError event was sent, or an exit event was.
SessionEnded(c) ==
  \/ conn[c].ws = "closed"
  \/ \E i \in 1..Len(Sent(c)) : Sent(c)[i].type \in {"compileError", "exit"}

\* C14: once a session has ended by any route, its workspace directory
\* does not exist.
C14_SessionWorkspaceRemoved ==
  \A c \in Connections : SessionEnded(c) => conn[c].sessionId \notin fs.dirs

\* C15: when a program has run to its own end, the stdout and stderr of
\* the response are exactly what it wrote to its standard output and its
\* standard error.
C15_StreamsVerbatim ==
  \A r \in Requests :
    (Done(r) /\ RanToItsEnd(r) /\ ProgramOf(r) \in Programs) =>
      /\ req[r].response.stdout = Program(ProgramOf(r)).out
      /\ req[r].response.stderr = Program(ProgramOf(r)).err

\* C16: when the User Input Test has run to its end for a request whose
\* stdin field holds the name John, the stdout of the response holds John.
C16_SuppliedInputReachesProgram ==
  \A r \in Requests :
    (Done(r) /\ RanToItsEnd(r) /\ ProgramOf(r) = "greet" /\ req[r].body.stdin = StdinJohn) =>
      \E i \in 1..Len(req[r].response.stdout) : req[r].response.stdout[i] = "John"

\* The resource options of every `docker run` the backend has made or has
\* in flight: for the builds and runs of the batch requests, and for the
\* builds and terminal processes of the sessions.
Launched ==
  {BuildCaps : r \in {q \in Requests : req[q].calls.compileCode > 0}}
    \cup {RunCaps : r \in {q \in Requests : req[q].calls.executeCode > 0}}
    \cup {SessionBuildCaps : k \in compiles}
    \cup {SessionRunCaps : pid \in DOMAIN procs}

\* C17: every container is launched with a memory ceiling, a CPU share, a
\* process-count ceiling, no network and the unprivileged identity, the
\* same for all of them.
C17_SameCapsEverywhere ==
  \A a \in Launched :
    /\ a.memory # "" /\ a.cpus # "" /\ a.pids # "" /\ a.network = "none" /\ a.user # ""
    /\ \A b \in Launched : a = b

\* C18: every batch execution runs under a deadline inside the container
\* and under a strictly larger timeout of the invoking process.
C18_TwoDeadlines ==
  \A r \in Requests :
    req[r].calls.executeCode > 0 =>
      /\ InnerDeadline(server) > 0
      /\ OuterTimeout(server) > InnerDeadline(server)

C20_LaunchFailureIsInternalError ==
  \A r \in Requests :
    (Done(r) /\ (req[r].build = "launchFail" \/ req[r].run = "launchFail")) =>
      req[r].response.status = 500

\* C21: no stage of a request is invoked twice and no request is answered
\* twice; a request whose handler has ended has been answered exactly once,
\* whatever its path.
C21_NoRetryOneResponse ==
  \A r \in Requests :
    /\ req[r].calls.compileCode <= 1
    /\ req[r].calls.executeCode <= 1
    /\ req[r].calls.createWorkspace <= 1
    /\ req[r].calls.respond <= 1
    /\ Done(r) <=> req[r].calls.respond = 1
    /\ req[r].build # "none" => req[r].calls.compileCode = 1
    /\ req[r].run # "none" => req[r].calls.executeCode = 1

\* C21 witness: the four paths have each ended with one response: a
\* refused body, a failed build, a run, and a workspace that could not be
\* made.
C21_Witness ==
  /\ \E r \in Requests :
       Done(r) /\ req[r].run # "none" /\ req[r].calls.respond = 1
         /\ req[r].calls.compileCode = 1 /\ req[r].calls.executeCode = 1
  /\ \E r \in Requests :
       Done(r) /\ req[r].calls.respond = 1
         /\ (BuildFailed(r) \/ req[r].response.status \in {400, 500})
  /\ \A r \in Requests : Done(r)

\* The handler of request r stands between allocating its workspace and
\* cleaning it up.
InFlight(r) == req[r].pc \in {"writeMain", "writeInput", "compileCode", "executeCode"}

\* What the workspace of request r holds is what r itself put there: its
\* own source, its own input, the program built from its own source.
OwnFilesOnly(r) ==
  \A f \in fs.files :
    f.dir = req[r].runId =>
      \/ f.name = "main.c" /\ f.data = <<ProgramOf(r)>>
      \/ f.name = "input.txt" /\ f.data = req[r].body.stdin.text
      \/ f.name = "main" /\ f.data = <<ProgramOf(r)>>
      \/ f.name \in {"program.out", "program.err"}

\* The response the code gives request r when it is the only one: the
\* handler's path is fixed by the body, by the step at which the workspace
\* failed if any, and by how its own two invocations went.
ResponsesAlone(r) ==
  LET q == req[r]
      p == q.body.code.prog
      text == IF server = "index" THEN q.body.stdin.text ELSE <<>>
  IN IF JsonBytes(q.body) > BodyLimit THEN {ErrorMiddlewareResponse}
     ELSE IF IsInvalidCode(q.body.code) THEN {InvalidCodeResponse}
     ELSE IF q.body.code.len > CodeCeiling THEN {CodeTooLargeResponse}
     ELSE IF q.failedAt # "none" THEN {InternalErrorResponse(q.failedAt)}
     ELSE IF q.run = "none"
       THEN {CompileFailureResponse(compileCode(server, BuildCallback(server, p, q.build)))}
     ELSE {RunResponse(executeCode(server,
                         RunCallback(server, p, q.run, Stdout(p, text, junk)))) :
             junk \in Uninitialised}

\* C22: requests in flight together have workspaces of their own, each
\* holding only its owner's files and staying in place until its owner
\* cleans it up, and every request is answered as it is when it runs alone.
C22_ConcurrentRequestsIsolated ==
  /\ \A r, s \in Requests :
       (r # s /\ req[r].runId # 0 /\ req[s].runId # 0) => req[r].runId # req[s].runId
  /\ \A r \in Requests :
       /\ InFlight(r) => req[r].runId \in fs.dirs /\ OwnFilesOnly(r)
       /\ Done(r) => req[r].response \in ResponsesAlone(r)

\* C22 witness: a request whose program crashed has been answered and
\* cleaned up while a request that arrived before it, running an endless
\* loop, is still in its run stage with its workspace in place.
C22_Witness ==
  \E r, s \in Requests :
    /\ req[r].runId < req[s].runId
    /\ req[r].pc = "executeCode" /\ ProgramOf(r) = "loop"
    /\ req[r].runId \in fs.dirs
    /\ Done(s) /\ ProgramOf(s) = "segfault" /\ req[s].run = "ran"
    /\ req[s].cleanup = "removed"

\* The workspace directories a call of cleanupWorkspace can name: those
\* handed out so far and the next one, which was never made.
WorkspaceNames == 1..nextUuid

\* C23: cleanupWorkspace changes nothing when the directory is not there;
\* after a call that removed the directory or found none, a second call
\* changes nothing, and a call whose rmSync fails changes nothing either;
\* every request that got past validation has called it once when its
\* handler ends, and a failing removal leaves the request answered.
C23_CleanupIdempotentOnEveryPath ==
  /\ \A d \in WorkspaceNames :
       LET kept == cleanupWorkspace(fs, d, FALSE)
           gone == cleanupWorkspace(fs, d, TRUE)
       IN  /\ kept = fs
           /\ d \notin fs.dirs => gone = fs
           /\ \A y \in BOOLEAN : cleanupWorkspace(gone, d, y) = gone
  /\ \A r \in Requests :
       /\ (Done(r) /\ req[r].runId # 0) =>
            /\ req[r].calls.cleanupWorkspace = 1
            /\ req[r].cleanup \in {"absent", "removed", "failed"}
            /\ Responded(r)
       /\ req[r].calls.cleanupWorkspace <= 1

\* C23 witness: one request has ended after a removal of its workspace,
\* another after a cleanup that found no directory because mkdir had failed.
C23_Witness ==
  \E r, s \in Requests :
    /\ Done(r) /\ req[r].cleanup = "removed" /\ req[r].runId \notin fs.dirs
    /\ Done(s) /\ req[s].failedAt = "mkdir" /\ req[s].cleanup = "absent"

\* The workspace of request r holds the file called name.
Holds(r, name) == \E f \in fs.files : f.dir = req[r].runId /\ f.name = name

\* C24: while the build of a request is in flight both of its files are
\* written and its run has not been launched; its run is launched only
\* after its build has come back, and while the run is in flight no cleanup
\* has been called; cleanup is called only when every launched stage has
\* come back.
C24_StagesInSequence ==
  \A r \in Requests :
    /\ req[r].pc = "compileCode" =>
         /\ Holds(r, "main.c") /\ Holds(r, "input.txt")
         /\ req[r].build = "none" /\ req[r].calls.executeCode = 0
         /\ req[r].calls.cleanupWorkspace = 0
    /\ req[r].calls.compileCode > 0 => req[r].calls.createWorkspace = 1
    /\ req[r].calls.executeCode > 0 => req[r].build = "ran"
    /\ req[r].pc = "executeCode" =>
         /\ Holds(r, "main")
         /\ req[r].run = "none" /\ req[r].calls.cleanupWorkspace = 0
    /\ req[r].calls.cleanupWorkspace > 0 =>
         /\ req[r].pc = "done"
         /\ req[r].calls.compileCode > 0 => req[r].build # "none"
         /\ req[r].calls.executeCode > 0 => req[r].run # "none"

\* C24 witness: one request has gone through build, run and cleanup, and
\* another has its build in flight with both files written.
C24_Witness ==
  \E r, s \in Requests :
    /\ Done(r) /\ req[r].build = "ran" /\ req[r].run = "ran" /\ req[r].cleanup = "removed"
    /\ req[s].pc = "compileCode" /\ Holds(s, "main.c") /\ Holds(s, "input.txt")

\* C25: every build, of a request and of a session, waits under a timeout
\* of its own, which is not the timeout of the run; a request whose build
\* timed out has launched no run and is answered with a compile error.
C25_BuildWaitBounded ==
  /\ \A r \in Requests :
       /\ req[r].calls.compileCode > 0 =>
            BuildTimeout("batch") > 0 /\ BuildTimeout("batch") # OuterTimeout(server)
       /\ (Done(r) /\ req[r].build = "timeout") =>
            /\ req[r].calls.executeCode = 0
            /\ req[r].response.compileError # <<>>
  /\ \A k \in compiles : BuildTimeout("session") > 0

\* The builds started for connection c: those in flight, those that ended
\* in a spawned process and those that ended in a compileError event.
BuildsStarted(c) ==
  Cardinality({k \in compiles : k.conn = c})
    + Cardinality({pid \in DOMAIN procs : procs[pid].owner = c})
    + Cardinality(CompileErrorsAt(c))

\* The states of the session of connection c that hold of it.
SessionStates(c) ==
  (IF ~SessionEnded(c) /\ BuildsStarted(c) = 0 THEN {"AwaitingCode"} ELSE {})
    \cup (IF \E k \in compiles : k.conn = c THEN {"Compiling"} ELSE {})
    \cup (IF LiveProcesses(c) # {} THEN {"Running"} ELSE {})
    \cup (IF SessionEnded(c) THEN {"Closed"} ELSE {})

\* C26: a session that exists is in exactly one of the four states and has
\* started at most one build.
C26_SessionStateMachine ==
  \A c \in Connections :
    conn[c].ws # "none" =>
      /\ Cardinality(SessionStates(c)) = 1
      /\ BuildsStarted(c) <= 1

\* Where the exit events stand in what was sent on connection c.
ExitsAt(c) == {i \in 1..Len(Sent(c)) : Sent(c)[i].type = "exit"}

\* C27: an exit event is the only one of its connection and the last
\* thing sent on it.
C27_ExitIsTerminal ==
  \A c \in Connections :
    \A i \in ExitsAt(c) : ExitsAt(c) = {i} /\ i = Len(Sent(c))

\* In a step, a process is written to only by the handler of a `stdin`
\* message, which appends the line that arrives to the process that is
\* ws.term of its connection; a process that is spawned in the step has
\* been written nothing.
WrittenOnlyOnArrival ==
  \A pid \in DOMAIN procs' :
    IF pid \in DOMAIN procs
      THEN procs'[pid].stdin # procs[pid].stdin =>
             /\ inbound' = inbound + 1
             /\ \E c \in Connections :
                  /\ conn[c].ws = "open" /\ conn[c].term = pid
                  /\ procs'[pid].stdin = Append(procs[pid].stdin, InputLine(c, inbound'))
      ELSE procs'[pid].stdin = <<>>

\* A `stdin` message is handled while no connection has had a build
\* succeed: the clients make a step that starts no build and makes no
\* connection, and ws.term is set on no open connection.
EarlyInputStep ==
  /\ inbound' = inbound + 1
  /\ compiles' = compiles
  /\ nextUuid' = nextUuid
  /\ \A c \in Connections : conn[c].ws = "open" => conn[c].term = 0

\* C28: a `stdin` message that arrives before a build has succeeded changes
\* nothing, and no process is ever written a line at another time than the
\* line's arrival: a line that was not written then is not written later.
C28_EarlyInputDropped ==
  [][/\ EarlyInputStep => UNCHANGED <<conn, procs, fs, compiles, written>>
     /\ WrittenOnlyOnArrival]_vars

\* C28 witness: on the only connection made, a `stdin` message came before
\* the build succeeded, and the process spawned since has been written
\* nothing.
C28_Witness ==
  /\ conn[1].ws = "open" /\ conn[2].ws = "none"
  /\ BuildsStarted(1) = 1 /\ inbound = 3
  /\ Len(procs) = 1 /\ procs[1].stdin = <<>> /\ procs[1].live

\* The lines written to process pid came from the connection that owns it,
\* each once, in the order of their arrival.
InArrivalOrder(pid) ==
  \A i \in 1..Len(procs[pid].stdin) :
    /\ procs[pid].stdin[i].from = procs[pid].owner
    /\ \A j \in 1..(i - 1) : procs[pid].stdin[j].line < procs[pid].stdin[i].line

\* C29: while a session is running, the process its input is written to is
\* the running process of the session, and what a process has been written
\* is the lines of its own session, each once and in arrival order.
C29_InputToRunningProcess ==
  /\ \A c \in Connections : LiveProcesses(c) # {} => LiveProcesses(c) = {conn[c].term}
  /\ \A pid \in DOMAIN procs : InArrivalOrder(pid)

\* The positions, in what connection c was sent, of the stdout events that
\* carry a chunk of process pid.
StdoutOf(pid, c) ==
  {i \in 1..Len(Sent(c)) : Sent(c)[i].type = "stdout" /\ Sent(c)[i].pid = pid}

\* The chunks of process pid, each sent once, in the order written, as the
\* stripped text of a chunk of its program.
OneEventPerChunk(pid) ==
  LET o == procs[pid].owner
  IN  /\ Cardinality(StdoutOf(pid, o)) = procs[pid].wrote
      /\ \A k \in 1..procs[pid].wrote : \E i \in StdoutOf(pid, o) : Sent(o)[i].n = k
      /\ \A i, j \in StdoutOf(pid, o) : i < j => Sent(o)[i].n < Sent(o)[j].n
      /\ \A i \in StdoutOf(pid, o) :
           Sent(o)[i].data \in {Stripped[chunk] : chunk \in TerminalChunks(procs[pid].prog)}

OwnersOf(d) ==
  {<<"request", r>> : r \in {x \in Requests : ~Done(x) /\ req[x].runId = d}}
    \cup {<<"session", c>> : c \in {x \in Connections :
                                      conn[x].ws = "open" /\ conn[x].sessionId = d}}

\* C31: no workspace directory is owned by two in-flight requests or open
\* sessions; every request past validation and every open session has the
\* directory named by an id handed out to it, and the directory of an open
\* session or of a request at work in its workspace is in place.
C31_WorkspacesPairwiseDistinct ==
  /\ \A d \in 1..nextUuid : Cardinality(OwnersOf(d)) <= 1
  /\ \A r \in Requests :
       (req[r].pc \notin {"idle", "done"}) => req[r].runId \in 1..(nextUuid - 1)
  /\ \A r \in Requests : InFlight(r) => req[r].runId \in fs.dirs
  /\ \A c \in Connections :
       conn[c].ws = "open" =>
         /\ conn[c].sessionId \in 1..(nextUuid - 1)
         /\ conn[c].sessionId \in fs.dirs

\* C31 witness: a batch request is at work in its workspace while two
\* sessions are open, the three directories in place and different.
C31_Witness ==
  \E r \in Requests : \E c, e \in Connections :
    /\ c # e
    /\ InFlight(r)
    /\ conn[c].ws = "open" /\ conn[e].ws = "open"
    /\ Cardinality({req[r].runId, conn[c].sessionId, conn[e].sessionId}) = 3
    /\ {req[r].runId, conn[c].sessionId, conn[e].sessionId} \subseteq fs.dirs

\* The text of the stdout events in a sequence of sent events, one after
\* another.
RECURSIVE OutputText(_)
OutputText(events) ==
  IF events = <<>> THEN <<>>
  ELSE (IF Head(events).type = "stdout" THEN Head(events).data ELSE <<>>)
         \o OutputText(Tail(events))

\* C32: when a process has written its stream, however the stream was cut
\* into chunks, the text of the stdout events emitted for it is
\* stripAnsiSequences of the whole stream.
C32_FilteringIgnoresChunking ==
  \A pid \in DOMAIN procs :
    procs[pid].read = Len(procs[pid].stream) =>
      OutputText(Sent(procs[pid].owner)) = stripAnsiSequences(procs[pid].stream)

\* Text s holds no BEL and no complete CSI or OSC sequence.
NothingLeftToStrip(s) ==
  /\ \A i \in 1..Len(s) : s[i] # "BEL"
  /\ \A i \in 1..Len(s) : MatchCsi(s, i) = 0 /\ MatchOsc(s, i) = 0

\* C33: for every text a program writes in one chunk, stripping the
\* stripped text changes nothing, and the stripped text holds no BEL and no
\* complete CSI or OSC sequence.
C33_StripIdempotentAndComplete ==
  \A pid \in DOMAIN procs :
    LET once == stripAnsiSequences(procs[pid].stream)
    IN  /\ stripAnsiSequences(once) = once
        /\ NothingLeftToStrip(once)

\* The sessions a step has touched: those whose connection record or whose
\* processes are not what they were.
SessionsTouched ==
  {c \in Connections :
     \/ conn'[c] # conn[c]
     \/ \E pid \in DOMAIN procs : procs[pid].owner = c /\ procs'[pid] # procs[pid]}

\* C34: whatever arrives on a connection, the server goes on running and
\* the step changes the state, the processes and the event stream of at
\* most one session.
C34_SessionFailuresIsolated ==
  [][ServerUp' /\ Cardinality(SessionsTouched) <= 1]_vars

\* C35: every event handed to ws.send on a connection was handed to it
\* while that connection was open.
C35_NoSendAfterClose ==
  \A c \in Connections : \A i \in 1..Len(Sent(c)) : Sent(c)[i].open

\* No step writes input to a process that has ended.
NoWriteAfterExit ==
  \A pid \in DOMAIN procs :
    ~procs[pid].live => procs'[pid].stdin = procs[pid].stdin

\* After the step no session holds, as ws.term, a process that has ended.
NoHandleAfterExit ==
  \A c \in Connections : conn'[c].term # 0 => procs'[conn'[c].term].live

\* C36: input is never written to a process that has exited, and once its
\* process has exited a session holds no process handle.
C36_InputOnlyToLiveProcess ==
  [][NoWriteAfterExit /\ NoHandleAfterExit]_vars

====
